---- MODULE Spec2Model ----
(***************************************************************************)
(* Model of truskawka_lib/src/protocol.rs: the Request frame codec         *)
(* (RequestCodec::ready, RequestCodec::read_frame, Decoder::decode,        *)
(* Encoder::encode) driven over a byte stream that is delivered to the     *)
(* accumulation buffer in arbitrary fragments.                             *)
(*                                                                         *)
(* Bytes are naturals in 0..255, buffers (Bytes, BytesMut, Vec<u8>) are    *)
(* sequences of bytes whose first element is the read cursor.              *)
(***************************************************************************)
EXTENDS Integers, Sequences, FiniteSets, TLC

VARIABLES sent, wire, buf, received, last, enc

vars == <<sent, wire, buf, received, last, enc>>

(***************************************************************************)
(* Bounds of the model.                                                    *)
(***************************************************************************)
\* most strings in one Request
MaxStrings == 2
\* most bytes in one string
MaxStrLen == 2
\* most bytes ever written to the stream by encode
MaxWire == 22
\* most bytes ever written to a stream that carries unvalidated bytes
MaxRawWire == 15
\* most bytes written outside any frame
MaxJunk == 2
\* most bytes ever written to the stream whose adapter is scheduled fairly
MaxLiveWire == 13

(***************************************************************************)
(* Input alphabets.  AsciiBytes are the characters an AsciiString may hold *)
(* (0 collides with the bytes of small length prefixes, 127 is the largest *)
(* ASCII value); RawBytes adds the smallest byte from_ascii rejects.       *)
(***************************************************************************)
AsciiBytes == {0, 127}

RawBytes == AsciiBytes \cup {128}

RECURSIVE SeqsUpTo(_, _)
SeqsUpTo(S, n) ==
    IF n = 0 THEN {<<>>}
    ELSE LET shorter == SeqsUpTo(S, n - 1)
         IN  shorter \cup {Append(s, x) : s \in {t \in shorter : Len(t) = n - 1}, x \in S}

\* sequences of at most n strings drawn from S whose frame fits b bytes
\* (4 bytes of string count, 4 bytes of length before each string)
RECURSIVE StringsWithin(_, _, _)
StringsWithin(S, n, b) ==
    IF n = 0 THEN {<<>>}
    ELSE {<<>>} \cup
         UNION {{<<s>> \o r : r \in StringsWithin(S, n - 1, b - 4 - Len(s))} :
                s \in {t \in S : 4 + Len(t) <= b}}

\* the values of Request { strings: Vec<AsciiString> } whose frame fits b bytes
Requests(b) == StringsWithin(SeqsUpTo(AsciiBytes, MaxStrLen), MaxStrings, b - 4)

\* frame-shaped byte strings whose string contents are not validated
RawRequests(b) == StringsWithin(SeqsUpTo(RawBytes, MaxStrLen), MaxStrings, b - 4)

(***************************************************************************)
(* The bytes crate: Buf / BufMut operations used by the codec.             *)
(***************************************************************************)
remaining(src) == Len(src)

advance(src, n) == SubSeq(src, n + 1, Len(src))

split_to(src, n) == SubSeq(src, 1, n)

(***************************************************************************)
(* A u32 read from the wire is kept as its two 16-bit halves, value        *)
(* hi * 65536 + lo, so that all 2^32 values are represented exactly.       *)
(* Buffers of the model are shorter than 65536 bytes.                      *)
(***************************************************************************)
\* faulty variant: the four bytes are read least significant first
get_u32_le(src) == [hi |-> src[4] * 256 + src[3], lo |-> src[2] * 256 + src[1]]

\* big-endian read of the first four bytes (the caller advances the cursor)
get_u32(src) == [hi |-> src[1] * 256 + src[2], lo |-> src[3] * 256 + src[4]]

\* `len as usize`, evaluated only where len is known to fit the buffer
as_usize(u) == u.hi * 65536 + u.lo

\* a < u for a buffer length a and a u32 u
usize_lt_u32(a, u) == u.hi > 0 \/ a < u.lo

u32_is_zero(u) == u.hi = 0 /\ u.lo = 0

\* the range 0..n_strings with one iteration taken
u32_pred(u) == IF u.lo > 0 THEN [hi |-> u.hi, lo |-> u.lo - 1]
               ELSE [hi |-> u.hi - 1, lo |-> 65535]

\* faulty variant: the four bytes are written least significant first
put_u32_le(n) ==
    <<n % 256, (n \div 256) % 256, (n \div 65536) % 256, n \div 16777216>>

\* `n as u32` followed by the big-endian write of four bytes; every length
\* of the model is below 2^31, where `as u32` changes nothing
put_u32(n) ==
    <<n \div 16777216, (n \div 65536) % 256, (n \div 256) % 256, n % 256>>

(***************************************************************************)
(* AsciiString::from_ascii: accepts the bytes unchanged iff all are < 128. *)
(***************************************************************************)
\* faulty variant: the bytes are taken without validation
from_ascii_unchecked(bytes) == TRUE

\* faulty variant: only the first byte is validated
from_ascii_first_only(bytes) == bytes = <<>> \/ bytes[1] < 128

from_ascii(bytes) == \A i \in 1..Len(bytes) : bytes[i] < 128

(***************************************************************************)
(* RequestCodec::ready.  ready_step is one iteration of the loop body; the *)
(* result carries the view as the call left it and the iterations begun.   *)
(***************************************************************************)
\* faulty variant: the test of line 38 that the string bytes are present is missing
ready_step_no_payload_check(view) ==
    IF remaining(view) < 4 THEN [ok |-> FALSE, view |-> view]
    ELSE LET len  == get_u32(view)
             rest == advance(view, 4)
         IN  IF len.hi > 0 THEN [ok |-> FALSE, view |-> rest]
             ELSE [ok |-> TRUE, view |-> advance(rest, as_usize(len))]

ready_step(view) ==
    IF remaining(view) < 4 THEN [ok |-> FALSE, view |-> view]
    ELSE LET len  == get_u32(view)
             rest == advance(view, 4)
         IN  IF usize_lt_u32(remaining(rest), len) THEN [ok |-> FALSE, view |-> rest]
             ELSE [ok |-> TRUE, view |-> advance(rest, as_usize(len))]

\* faulty variant: a shortfall does not end the loop, which then runs its
\* remaining iterations on the same view (their number is given in closed
\* form, 65536 standing for any count of 65536 or more)
RECURSIVE ready_loop_no_early_return(_, _, _)
ready_loop_no_early_return(view, n, iters) ==
    IF u32_is_zero(n) THEN [ready |-> TRUE, view |-> view, iters |-> iters]
    ELSE LET s == ready_step(view)
         IN  IF ~s.ok
             THEN [ready |-> FALSE, view |-> s.view,
                   iters |-> iters + (IF n.hi > 0 THEN 65536 ELSE n.lo)]
             ELSE ready_loop_no_early_return(s.view, u32_pred(n), iters + 1)

RECURSIVE ready_loop(_, _, _)
ready_loop(view, n, iters) ==
    IF u32_is_zero(n) THEN [ready |-> TRUE, view |-> view, iters |-> iters]
    ELSE LET s == ready_step(view)
         IN  IF ~s.ok THEN [ready |-> FALSE, view |-> s.view, iters |-> iters + 1]
             ELSE ready_loop(s.view, u32_pred(n), iters + 1)

\* faulty variant: the loop runs over 1..n_strings, one iteration short
ready_one_short(src) ==
    IF remaining(src) < 4 THEN [ready |-> FALSE, view |-> src, iters |-> 0]
    ELSE IF u32_is_zero(get_u32(src)) THEN [ready |-> TRUE, view |-> advance(src, 4), iters |-> 0]
    ELSE ready_loop(advance(src, 4), u32_pred(get_u32(src)), 0)

ready(src) ==
    IF remaining(src) < 4 THEN [ready |-> FALSE, view |-> src, iters |-> 0]
    ELSE ready_loop(advance(src, 4), get_u32(src), 0)

(***************************************************************************)
(* RequestCodec::read_frame.  read_step is one iteration of the loop body. *)
(* get_u32 and split_to panic when the buffer is too short.                *)
(***************************************************************************)
\* faulty variant: the string is validated in place and split off only when valid
read_step_no_split(src) ==
    IF remaining(src) < 4 THEN [kind |-> "panic", string |-> <<>>, src |-> src]
    ELSE LET len  == get_u32(src)
             rest == advance(src, 4)
         IN  IF usize_lt_u32(remaining(rest), len)
             THEN [kind |-> "panic", string |-> <<>>, src |-> rest]
             ELSE LET chunk == split_to(rest, as_usize(len))
                  IN  IF from_ascii(chunk)
                      THEN [kind |-> "ok", string |-> chunk, src |-> advance(rest, as_usize(len))]
                      ELSE [kind |-> "err", string |-> <<>>, src |-> rest]

read_step(src) ==
    IF remaining(src) < 4 THEN [kind |-> "panic", string |-> <<>>, src |-> src]
    ELSE LET len  == get_u32(src)
             rest == advance(src, 4)
         IN  IF usize_lt_u32(remaining(rest), len)
             THEN [kind |-> "panic", string |-> <<>>, src |-> rest]
             ELSE LET chunk == split_to(rest, as_usize(len))
                      after == advance(rest, as_usize(len))
                  IN  IF from_ascii(chunk)
                      THEN [kind |-> "ok", string |-> chunk, src |-> after]
                      ELSE [kind |-> "err", string |-> <<>>, src |-> after]

\* faulty variant: each string is inserted in front of those read before it
RECURSIVE read_loop_insert_front(_, _, _)
read_loop_insert_front(src, n, strings) ==
    IF u32_is_zero(n) THEN [kind |-> "ok", strings |-> strings, src |-> src]
    ELSE LET s == read_step(src)
         IN  IF s.kind = "ok"
             THEN read_loop_insert_front(s.src, u32_pred(n), <<s.string>> \o strings)
             ELSE [kind |-> s.kind, strings |-> <<>>, src |-> s.src]

\* faulty variant: on the encoding error the remaining strings of the frame
\* are skipped before the error is returned
RECURSIVE read_loop_skip_rest(_, _, _)
read_loop_skip_rest(src, n, strings) ==
    IF u32_is_zero(n) THEN [kind |-> "ok", strings |-> strings, src |-> src]
    ELSE LET s == read_step(src)
         IN  IF s.kind = "ok"
             THEN read_loop_skip_rest(s.src, u32_pred(n), Append(strings, s.string))
             ELSE IF s.kind = "err"
             THEN [kind |-> "err", strings |-> <<>>,
                   src |-> ready_loop(s.src, u32_pred(n), 0).view]
             ELSE [kind |-> s.kind, strings |-> <<>>, src |-> s.src]

RECURSIVE read_loop(_, _, _)
read_loop(src, n, strings) ==
    IF u32_is_zero(n) THEN [kind |-> "ok", strings |-> strings, src |-> src]
    ELSE LET s == read_step(src)
         IN  IF s.kind = "ok" THEN read_loop(s.src, u32_pred(n), Append(strings, s.string))
             ELSE [kind |-> s.kind, strings |-> <<>>, src |-> s.src]

\* faulty variant: the rest of the buffer is taken together with the frame
read_frame_take_all(src) ==
    IF remaining(src) < 4 THEN [kind |-> "panic", strings |-> <<>>, src |-> src]
    ELSE [read_loop(advance(src, 4), get_u32(src), <<>>) EXCEPT !.src = <<>>]

read_frame(src) ==
    IF remaining(src) < 4 THEN [kind |-> "panic", strings |-> <<>>, src |-> src]
    ELSE read_loop(advance(src, 4), get_u32(src), <<>>)

(***************************************************************************)
(* Decoder::decode.  ready runs on src.clone().freeze(), so whatever it    *)
(* advances over is dropped with the clone.  kind is "none" for Ok(None),  *)
(* "some" for Ok(Some(Request)), "err" for Err(BadAsciiEncoding).          *)
(***************************************************************************)
\* faulty variant: read_frame is called without the readiness check
decode_unchecked(src) ==
    LET f == read_frame(src)
    IN  [kind    |-> IF f.kind = "ok" THEN "some" ELSE f.kind,
         ready   |-> TRUE,
         strings |-> f.strings,
         src     |-> f.src]

\* faulty variant: ready runs on the buffer itself, not on a clone
decode_shared_cursor(src) ==
    LET r == ready(src)
    IN  IF ~r.ready
        THEN [kind |-> "none", ready |-> FALSE, strings |-> <<>>, src |-> r.view]
        ELSE LET f == read_frame(src)
             IN  [kind    |-> IF f.kind = "ok" THEN "some" ELSE f.kind,
                  ready   |-> TRUE,
                  strings |-> f.strings,
                  src     |-> f.src]

decode(src) ==
    LET r == ready(src)
    IN  IF ~r.ready
        THEN [kind |-> "none", ready |-> FALSE, strings |-> <<>>, src |-> src]
        ELSE LET f == read_frame(src)
             IN  [kind    |-> IF f.kind = "ok" THEN "some" ELSE f.kind,
                  ready   |-> TRUE,
                  strings |-> f.strings,
                  src     |-> f.src]

(***************************************************************************)
(* Encoder<Request>::encode.                                               *)
(***************************************************************************)
RECURSIVE strings_len(_)
strings_len(strings) ==
    IF strings = <<>> THEN 0 ELSE Len(Head(strings)) + strings_len(Tail(strings))

\* the length handed to dst.reserve
reserve_len(strings) == 8 + strings_len(strings)

\* faulty variant: the length prefix of the string is not written
put_string_no_len(dst, string) == dst \o string

put_string(dst, string) == dst \o put_u32(Len(string)) \o string

RECURSIVE put_strings(_, _)
put_strings(dst, strings) ==
    IF strings = <<>> THEN dst
    ELSE put_strings(put_string(dst, Head(strings)), Tail(strings))

encode(strings, dst) ==
    [result  |-> "Ok",
     reserve |-> reserve_len(strings),
     dst     |-> put_strings(dst \o put_u32(Len(strings)), strings)]

(***************************************************************************)
(* The stream.  sent records what the peer wrote, in order; wire holds the *)
(* bytes written and not yet delivered; buf is the accumulation buffer the *)
(* stream adapter hands to decode; received collects the Requests decode   *)
(* returned; last records the most recent decode call; enc the most recent *)
(* encode call.                                                            *)
(***************************************************************************)
RECURSIVE BytesOf(_)
BytesOf(items) ==
    IF items = <<>> THEN <<>> ELSE Head(items).bytes \o BytesOf(Tail(items))

\* stream offset of the first byte of buf
Offset == Len(BytesOf(sent)) - Len(wire) - Len(buf)

Init ==
    /\ sent = <<>>
    /\ wire = <<>>
    /\ buf = <<>>
    /\ received = <<>>
    /\ last = [kind |-> "init", ready |-> FALSE, src |-> <<>>, strings |-> <<>>,
               rest |-> <<>>, off |-> 0]
    /\ enc = [result |-> "init", reserve |-> 0]

\* bytes written to the stream so far
Written == Len(BytesOf(sent))

\* a peer encodes one Request onto the stream
Write(strings) ==
    LET e == encode(strings, wire)
    IN  /\ wire' = e.dst
        /\ sent' = Append(sent, [junk    |-> FALSE,
                                 strings |-> strings,
                                 bytes   |-> advance(e.dst, Len(wire))])
        /\ enc' = [result |-> e.result, reserve |-> e.reserve]
        /\ UNCHANGED <<buf, received, last>>

Send ==
    /\ Written + 4 <= MaxWire
    /\ \E r \in Requests(MaxWire - Written) : Write(r)

\* a peer writes a frame-shaped byte string whose strings may hold any byte
SendRaw ==
    /\ Written + 4 <= MaxRawWire
    /\ \E r \in RawRequests(MaxRawWire - Written) : Write(r)

\* a peer writes one byte that belongs to no frame
WriteJunk ==
    \E b \in RawBytes :
        /\ Written + 1 <= MaxRawWire
        /\ Cardinality({i \in 1..Len(sent) : sent[i].junk}) < MaxJunk
        /\ wire' = Append(wire, b)
        /\ sent' = Append(sent, [junk |-> TRUE, strings |-> <<>>, bytes |-> <<b>>])
        /\ UNCHANGED <<buf, received, last, enc>>

\* the stream adapter appends the next k bytes of the stream to the buffer
Deliver ==
    \E k \in 1..Len(wire) :
        /\ buf' = buf \o split_to(wire, k)
        /\ wire' = advance(wire, k)
        /\ UNCHANGED <<sent, received, last, enc>>

\* the stream adapter calls decode on the buffer
Decode ==
    LET d == decode(buf)
    IN  /\ buf' = d.src
        /\ received' = IF d.kind = "some" THEN Append(received, d.strings) ELSE received
        /\ last' = [kind |-> d.kind, ready |-> d.ready, src |-> buf,
                    strings |-> d.strings, rest |-> d.src, off |-> Offset]
        /\ UNCHANGED <<sent, wire, enc>>

Next == Send \/ Deliver \/ Decode

Spec == Init /\ [][Next]_vars

NextRaw == SendRaw \/ WriteJunk \/ Deliver \/ Decode

SpecRaw == Init /\ [][NextRaw]_vars

\* a peer encodes one Request onto the stream that is read to its end
SendLive ==
    /\ Written + 4 <= MaxLiveWire
    /\ \E r \in Requests(MaxLiveWire - Written) : Write(r)

NextLive == SendLive \/ Deliver \/ Decode

\* the stream adapter keeps appending the bytes that arrive and keeps calling
\* decode on the buffer
SpecLive == Init /\ [][NextLive]_vars /\ WF_vars(Deliver) /\ WF_vars(Decode)

(***************************************************************************)
(* The wire format, stated independently of the codec, and the places of   *)
(* the written frames in the stream.                                       *)
(***************************************************************************)
\* n as a 4-byte big-endian unsigned integer
BigEndian4(n) == [i \in 1..4 |-> (n \div (256 ^ (4 - i))) % 256]

RECURSIVE StringsBytes(_)
StringsBytes(strings) ==
    IF strings = <<>> THEN <<>>
    ELSE BigEndian4(Len(Head(strings))) \o Head(strings) \o StringsBytes(Tail(strings))

\* the frame of a sequence of strings
FrameBytes(strings) == BigEndian4(Len(strings)) \o StringsBytes(strings)

AllBelow128(bytes) == \A j \in 1..Len(bytes) : bytes[j] <= 127

AllAscii(strings) == \A j \in 1..Len(strings) : AllBelow128(strings[j])

\* stream offset of the first byte of the i-th written item
ItemStart(i) == Len(BytesOf(SubSeq(sent, 1, i - 1)))

\* the last decode call was handed a buffer that starts with the first byte
\* of the i-th written item, which is a frame
CalledAtFrame(i) ==
    /\ last.kind # "init"
    /\ ~sent[i].junk
    /\ last.off = ItemStart(i)

\* bytes the last decode call removed from the front of the buffer
Removed == Len(last.src) - Len(last.rest)

\* value of the u32 at the front of b when it is at most Len(b), else -1
\* (a larger count or length cannot be satisfied by b)
SmallU32(b) ==
    IF b[1] = 0 /\ b[2] = 0 /\ b[3] * 256 + b[4] <= Len(b) THEN b[3] * 256 + b[4] ELSE -1

\* bytes occupied by k length-prefixed strings at the front of b, -1 when b
\* ends before the last of them does
RECURSIVE StringsSpan(_, _)
StringsSpan(b, k) ==
    IF k = 0 THEN 0
    ELSE IF Len(b) < 4 \/ SmallU32(b) = -1 \/ Len(b) < 4 + SmallU32(b) THEN -1
    ELSE LET here == 4 + SmallU32(b)
             more == StringsSpan(SubSeq(b, here + 1, Len(b)), k - 1)
         IN  IF more = -1 THEN -1 ELSE here + more

\* length of the complete frame at the front of b, -1 when b holds none
FrameSpan(b) ==
    IF Len(b) < 4 \/ SmallU32(b) = -1 THEN -1
    ELSE LET body == StringsSpan(SubSeq(b, 5, Len(b)), SmallU32(b))
         IN  IF body = -1 THEN -1 ELSE 4 + body

\* index of the first string holding a byte >= 128 (0 when there is none)
FirstBad(strings) ==
    IF AllAscii(strings) THEN 0
    ELSE CHOOSE j \in 1..Len(strings) :
             /\ ~AllBelow128(strings[j])
             /\ \A m \in 1..(j - 1) : AllBelow128(strings[m])

(***************************************************************************)
(* C1: the Requests returned by decode are at every point a prefix of the  *)
(* Requests sent: the same Requests in the same order, and the buffer      *)
(* starts exactly where the frame after the last returned one starts, so   *)
(* none is duplicated, skipped or invented, however the stream was cut.    *)
(***************************************************************************)
C1_ReceivedIsPrefixOfSent ==
    /\ Len(received) <= Len(sent)
    /\ \A i \in 1..Len(received) : received[i] = sent[i].strings
    /\ Offset = ItemStart(Len(received) + 1)

C1_Witness ==
    /\ Len(received) = 2
    /\ received[1] # received[2]
    /\ Len(received[1]) = 1
    /\ last.kind = "some"
    /\ last.rest # <<>>
    /\ wire # <<>>

(***************************************************************************)
(* C2: round trip.  decode on the buffer that encode filled from empty     *)
(* with a Request returns that Request, string by string in order, and     *)
(* leaves the buffer empty.                                                *)
(***************************************************************************)
C2_RoundTrip ==
    \A i \in 1..Len(sent) :
        (last.kind # "init" /\ last.src = encode(sent[i].strings, <<>>).dst)
            => /\ last.kind = "some"
               /\ last.strings = sent[i].strings
               /\ last.rest = <<>>

C2_Witness ==
    /\ last.kind = "some"
    /\ last.src = encode(last.strings, <<>>).dst
    /\ Len(last.strings) = 2
    /\ last.strings[1] = <<>>
    /\ Len(last.strings[2]) = 2
    /\ last.rest = <<>>

(***************************************************************************)
(* C3: ready is false on every strict prefix of a valid frame (the empty   *)
(* prefix included) and true on the whole frame followed by any bytes.     *)
(***************************************************************************)
C3_ReadyIffFramePresent ==
    \A i \in 1..Len(sent) :
        (CalledAtFrame(i) /\ AllAscii(sent[i].strings))
            => (last.ready <=> Len(last.src) >= Len(FrameBytes(sent[i].strings)))

C3_Witness ==
    \E i \in 1..Len(sent) :
        /\ CalledAtFrame(i)
        /\ AllAscii(sent[i].strings)
        /\ Len(sent[i].strings) = 1
        /\ last.ready
        /\ Len(last.src) > Len(FrameBytes(sent[i].strings))
        /\ last.src[Len(FrameBytes(sent[i].strings)) + 1] = 128

(***************************************************************************)
(* C4: with a complete valid frame of F bytes at the front of the buffer,  *)
(* decode returns its Request, removes exactly those F bytes and leaves    *)
(* the bytes behind them unchanged at the front of the buffer; the same    *)
(* holds for the call that finds the next frame there.                     *)
(***************************************************************************)
C4_RemovesExactlyOneFrame ==
    \A i \in 1..Len(sent) :
        (/\ CalledAtFrame(i)
         /\ AllAscii(sent[i].strings)
         /\ Len(last.src) >= Len(FrameBytes(sent[i].strings)))
            => /\ last.kind = "some"
               /\ last.strings = sent[i].strings
               /\ last.rest = SubSeq(last.src, Len(FrameBytes(sent[i].strings)) + 1,
                                     Len(last.src))

C4_Witness ==
    \E i \in 2..Len(sent) :
        /\ CalledAtFrame(i)
        /\ ~sent[i - 1].junk
        /\ Len(received) = 2
        /\ received[2] = sent[i].strings
        /\ Len(sent[i].strings) = 1
        /\ last.kind = "some"
        /\ last.rest # <<>>

(***************************************************************************)
(* C5: when decode returns Ok(None) the buffer is byte for byte what it    *)
(* was, and a further decode of it returns Ok(None) and leaves it alone.   *)
(***************************************************************************)
C5_NoneLeavesBuffer ==
    last.kind = "none"
        => /\ last.rest = last.src
           /\ decode(last.rest).kind = "none"
           /\ decode(last.rest).src = last.src

C5_Witness ==
    /\ last.kind = "none"
    /\ Len(last.src) >= 9
    /\ buf = last.src
    /\ last.src[4] = 2

(***************************************************************************)
(* C6: a complete frame in which some string holds a byte >= 128, at any   *)
(* place, makes decode return the BadAsciiEncoding error and no Request.   *)
(***************************************************************************)
C6_NonAsciiIsAnError ==
    \A i \in 1..Len(sent) :
        (/\ CalledAtFrame(i)
         /\ ~AllAscii(sent[i].strings)
         /\ Len(last.src) >= Len(FrameBytes(sent[i].strings)))
            => /\ last.kind = "err"
               /\ last.strings = <<>>
               /\ \A j \in 1..Len(received) : received[j] # sent[i].strings

C6_Witness ==
    \E i \in 1..Len(sent) :
        /\ CalledAtFrame(i)
        /\ Len(sent[i].strings) = 2
        /\ sent[i].strings[2] = <<0, 128>>
        /\ AllBelow128(sent[i].strings[1])
        /\ Len(last.src) >= Len(FrameBytes(sent[i].strings))
        /\ last.kind = "err"

(***************************************************************************)
(* C7: encode returns Ok and appends to dst the string count as 4 bytes    *)
(* big-endian, then for each string in order its length as 4 bytes         *)
(* big-endian and its bytes; what dst held stays in front, unchanged.      *)
(***************************************************************************)
C7_EncodeAppendsFrame ==
    [][Len(sent') = Len(sent) + 1
          => /\ enc'.result = "Ok"
             /\ wire' = wire \o FrameBytes(sent'[Len(sent')].strings)]_vars

C7_Witness ==
    /\ Len(sent) = 2
    /\ enc.result = "Ok"
    /\ Len(sent[1].strings) = 1
    /\ Len(sent[2].strings) = 2
    /\ sent[2].strings[1] # sent[2].strings[2]
    /\ wire = FrameBytes(sent[1].strings) \o FrameBytes(sent[2].strings)

(***************************************************************************)
(* C8: on a buffer that holds no complete frame, whatever it declares and  *)
(* whatever bytes it holds, decode returns Ok(None): no error, no panic,   *)
(* no Request.                                                             *)
(***************************************************************************)
C8_IncompleteIsNone ==
    (/\ last.kind # "init"
     /\ \/ FrameSpan(last.src) = -1
        \/ \E i \in 1..Len(sent) :
               CalledAtFrame(i) /\ Len(last.src) < Len(FrameBytes(sent[i].strings)))
        => /\ last.kind = "none"
           /\ last.strings = <<>>

C8_Witness ==
    \E i \in 1..Len(sent) :
        /\ CalledAtFrame(i)
        /\ Len(last.src) = Len(FrameBytes(sent[i].strings)) - 1
        /\ Len(sent[i].strings) = 2
        /\ ~AllBelow128(sent[i].strings[1])
        /\ FrameSpan(last.src) = -1
        /\ last.kind = "none"

(***************************************************************************)
(* C9: a Request decode returns has as many strings as the frame's count   *)
(* field says, each string is the declared number of bytes at its place in *)
(* the frame, and every byte of every string is < 128.                     *)
(***************************************************************************)
C9_ReturnedRequestIsWhole ==
    /\ last.kind = "some"
           => /\ SubSeq(last.src, 1, 4) = BigEndian4(Len(last.strings))
              /\ SubSeq(last.src, 1, Removed) = FrameBytes(last.strings)
              /\ AllAscii(last.strings)
    /\ \A j \in 1..Len(received) : AllAscii(received[j])

C9_Witness ==
    /\ last.kind = "some"
    /\ Len(last.strings) = 2
    /\ Len(last.strings[1]) = 1
    /\ Len(last.strings[2]) = 1
    /\ last.rest # <<>>
    /\ ~AllBelow128(last.rest)

(***************************************************************************)
(* C10: after decode fails with the encoding error the bytes of the        *)
(* malformed string are gone from the buffer: what is left starts behind   *)
(* a length-prefixed string that holds a byte >= 128, and when the call    *)
(* started on a written frame, at or behind the end of its first such      *)
(* string.                                                                 *)
(***************************************************************************)
C10_MalformedStringRemoved ==
    last.kind = "err"
        => /\ last.rest = SubSeq(last.src, Removed + 1, Len(last.src))
           /\ \E len \in 1..(Removed - 8) :
                  /\ SubSeq(last.src, Removed - len - 3, Removed - len) = BigEndian4(len)
                  /\ ~AllBelow128(SubSeq(last.src, Removed - len + 1, Removed))
           /\ \A i \in 1..Len(sent) :
                  CalledAtFrame(i)
                      => Removed >= Len(FrameBytes(SubSeq(sent[i].strings, 1,
                                                          FirstBad(sent[i].strings))))

C10_Witness ==
    \E i \in 1..Len(sent) :
        /\ CalledAtFrame(i)
        /\ Len(sent[i].strings) = 2
        /\ FirstBad(sent[i].strings) = 1
        /\ last.kind = "err"
        /\ last.rest # <<>>

(***************************************************************************)
(* C12: ready and read_frame agree.  Whenever ready returned true on the   *)
(* copy, read_frame on the buffer reads no length prefix and splits no     *)
(* string past the end (no panic), and when it succeeds it removes as many *)
(* bytes as ready advanced over.                                           *)
(***************************************************************************)
\* bytes ready advances over on the buffer of the last decode call
Walked == Len(last.src) - Len(ready(last.src).view)

C12_ReadyAndReadFrameAgree ==
    last.ready
        => /\ last.kind \in {"some", "err"}
           /\ last.kind = "some" => Removed = Walked

C12_Witness ==
    /\ last.ready
    /\ last.kind = "some"
    /\ Len(last.strings) = 2
    /\ Removed = Walked
    /\ Removed = 14
    /\ last.rest # <<>>

(***************************************************************************)
(* C13: the length encode hands to dst.reserve is 4 plus, for each string, *)
(* 4 plus its byte length: the number of bytes encode then writes.         *)
(***************************************************************************)
C13_ReserveIsBytesWritten ==
    enc.result = "Ok"
        => /\ enc.reserve = 4 + strings_len(sent[Len(sent)].strings)
                              + 4 * Len(sent[Len(sent)].strings)
           /\ enc.reserve = Len(sent[Len(sent)].bytes)

(***************************************************************************)
(* C16: when decode fails on the i-th string of a complete frame, the      *)
(* buffer has lost the count field and the length prefixes and bytes of    *)
(* strings 1..i, nothing else: the length prefixes and bytes of the later  *)
(* strings of the frame are at the front of the buffer, which is therefore *)
(* on the next frame boundary only when the i-th string was the last.      *)
(***************************************************************************)
C16_ErrorRemovesUpToFailingString ==
    \A i \in 1..Len(sent) :
        (last.kind = "err" /\ CalledAtFrame(i))
            => LET strings == sent[i].strings
                   bad     == FirstBad(strings)
                   later   == StringsBytes(SubSeq(strings, bad + 1, Len(strings)))
               IN  /\ bad >= 1
                   /\ Removed = 4 + 4 * bad + strings_len(SubSeq(strings, 1, bad))
                   /\ last.rest = SubSeq(last.src, Removed + 1, Len(last.src))
                   /\ SubSeq(last.rest, 1, Len(later)) = later
                   /\ (Removed = Len(FrameBytes(strings))) <=> (bad = Len(strings))

C16_Witness ==
    \E i \in 1..Len(sent) :
        /\ CalledAtFrame(i)
        /\ last.kind = "err"
        /\ Len(sent[i].strings) = 2
        /\ FirstBad(sent[i].strings) = 1
        /\ Len(sent[i].strings[2]) = 1
        /\ last.rest = StringsBytes(<<sent[i].strings[2]>>)
        /\ buf = last.rest

(***************************************************************************)
(* C17: ready ends on every buffer whatever string count it declares.  An  *)
(* iteration returns false or advances the view by at least 4 bytes, so    *)
(* the iterations begun are at most min(string_count, bytes behind the     *)
(* count field / 4) + 1.                                                   *)
(***************************************************************************)
\* the count field of b is at most k
CountAtMost(b, k) == b[1] = 0 /\ b[2] = 0 /\ b[3] * 256 + b[4] <= k

C17_ReadyIterationsBounded ==
    last.kind # "init"
        => LET r == ready(last.src)
               q == (Len(last.src) - 4) \div 4
           IN  /\ r.ready = last.ready
               /\ Len(last.src) < 4 => r.iters = 0
               /\ Len(last.src) >= 4
                      => /\ r.iters <= q + 1
                         /\ \A k \in 0..q : CountAtMost(last.src, k) => r.iters <= k + 1

C17_Witness ==
    /\ last.kind = "none"
    /\ Len(last.src) = 12
    /\ last.src[1] = 127
    /\ ready(last.src).iters = 3

(***************************************************************************)
(* C14: liveness under partial delivery.  While the stream adapter keeps   *)
(* appending the bytes of the stream and keeps calling decode, every frame *)
(* sent is eventually returned, and the decode call made when the buffer   *)
(* starts with the whole next frame returns it, whatever the cuts were.    *)
(***************************************************************************)
\* all frames before the next one are decoded and its last byte is in buf
NextFrameInBuffer ==
    /\ Len(received) < Len(sent)
    /\ Offset = ItemStart(Len(received) + 1)
    /\ Len(buf) >= Len(FrameBytes(sent[Len(received) + 1].strings))

C14_EveryFrameIsReturned ==
    /\ \A i \in 1..(MaxLiveWire \div 4) : (Len(sent) >= i) ~> (Len(received) >= i)
    /\ [][(NextFrameInBuffer /\ last' # last)
             => received' = Append(received, sent[Len(received) + 1].strings)]_vars

C14_Witness ==
    /\ Len(sent) = 2
    /\ Len(received) = 2
    /\ Len(received[1]) = 1
    /\ received[1] # received[2]
    /\ last.kind = "some"
    /\ Len(last.src) = Len(FrameBytes(received[2]))
    /\ buf = <<>>
    /\ wire = <<>>

====
